---- MODULE Spec2Model ----
(***************************************************************************)
(* Authentication layer of backend/auth/security.py and backend/api/auth.py *)
(* (SecurityManager, get_current_user, login, refresh_token, logout).      *)
(*                                                                         *)
(* Time is a global clock `now` counted in ticks, TicksPerSec ticks to the *)
(* second, so that datetime.utcnow() has a sub-second part while the JWT   *)
(* claims (python-jose stores exp/iat as whole seconds) and the Redis TTLs *)
(* (whole seconds) are integers.  The host clock is taken to be UTC.       *)
(* Durations of the configuration are scaled down (seconds instead of      *)
(* minutes/days); every comparison of the code is kept as written.         *)
(*                                                                         *)
(* Each request handler is cut at the awaits on the shared Redis store     *)
(* (incr, expire, get, setex): one action per store round trip, so that    *)
(* requests served concurrently interleave exactly there.  A store call    *)
(* either answers or raises (connection error, timeout).                   *)
(***************************************************************************)
EXTENDS Integers, Sequences, FiniteSets, TLC

\* ---------------------------------------------------------------- bounds
TicksPerSec == 2
MaxTime == 3
MaxRequests == 3
MaxPasswordLen == 17

\* -------------------------------------------- configuration (scaled down)
\* settings.ACCESS_TOKEN_EXPIRE_MINUTES / REFRESH_TOKEN_EXPIRE_DAYS, here in
\* seconds.
ACCESS_TOKEN_EXPIRE == 1
REFRESH_TOKEN_EXPIRE == 2
\* settings.RATE_LIMIT_PER_MINUTE / _PER_HOUR / _PER_DAY
RATE_LIMIT_PER_MINUTE == 1
RATE_LIMIT_PER_HOUR == 3
RATE_LIMIT_PER_DAY == 3
\* window sizes of check_rate_limit (60, 3600, 86400 in the code), in seconds
MINUTE == 1
HOUR == 2
DAY == 4

Procs == {"p1", "p2"}

\* windows = {"minute": (60, ..), "hour": (3600, ..), "day": (86400, ..)};
\* a dict iterates in insertion order.
windows ==
  << [name |-> "minute", size |-> MINUTE, limit |-> RATE_LIMIT_PER_MINUTE],
     [name |-> "hour",   size |-> HOUR,   limit |-> RATE_LIMIT_PER_HOUR],
     [name |-> "day",    size |-> DAY,    limit |-> RATE_LIMIT_PER_DAY] >>

\* ------------------------------------------------------------ principals
\* The users table: one registered user; "mallory" is not registered.
Credentials ==
  { <<"alice", "Secret1!">>, <<"alice", "wrong">>, <<"mallory", "wrong">> }

get_password_hash(password) == <<"bcrypt", password>>

verify_password(plain_password, hashed_password) ==
  get_password_hash(plain_password) = hashed_password

NoUser == [id |-> "", hashed_password |-> <<"", "">>, is_active |-> FALSE]

\* ---------------------------------------------------------------- tokens
\* A JWT is determined by its claims and the signing key: sig says whether
\* the signature verifies under settings.SECRET_KEY.
NoToken == [sub |-> "", type |-> "", iat |-> 0, exp |-> 0, sig |-> FALSE]
NoPair == [access_token |-> NoToken, refresh_token |-> NoToken]

\* datetime.utcnow() as whole seconds (timegm(utctimetuple()) in jose)
Seconds(t) == t \div TicksPerSec

\* jwt.encode(to_encode, SECRET_KEY, algorithm): the claims signed with the
\* key (HS256 has no random part); exp and iat, datetimes in ticks here, are
\* stored as whole seconds; ids in their str() form.
jwt_encode(subject, kind, expire, iat) ==
  [sub |-> subject, type |-> kind, iat |-> Seconds(iat),
   exp |-> Seconds(expire), sig |-> TRUE]

\* to_encode = {"exp": utcnow() + expires_delta, "sub": str(subject),
\* "type": kind, "iat": utcnow()} with both clock reads in the tick t;
\* expires_delta in ticks.
encode_token(subject, kind, t, expires_delta) ==
  jwt_encode(subject, kind, t + expires_delta, t)

create_access_token(subject, t) ==
  encode_token(subject, "access", t, ACCESS_TOKEN_EXPIRE * TicksPerSec)

create_refresh_token(subject, t) ==
  encode_token(subject, "refresh", t, REFRESH_TOKEN_EXPIRE * TicksPerSec)

\* A token made without the secret key.
ForgedToken ==
  [sub |-> "u1", type |-> "access", iat |-> 0, exp |-> MaxTime + 1, sig |-> FALSE]

\* (mutant) a token is refused from the second of its exp on
jwt_decode_ok_Strict(token, t) == token.sig /\ token.exp > Seconds(t)

\* jwt.decode: JWTError on a bad signature, or when exp < now (whole seconds)
jwt_decode_ok(token, t) == token.sig /\ ~(token.exp < Seconds(t))

VARIABLES
  now,                 \* the clock, in ticks
  users,               \* the users table: username -> row
  last_login_at,       \* User.last_login_at by user id, in seconds
  blacklist,           \* Redis keys blacklist:<token> -> expiry tick
  rate,                \* Redis keys rate_limit:... -> [count, ttl]
  req,                 \* the requests being served, one per worker
  issued,              \* the tokens handed out so far
  redis_client,        \* security_manager.redis_client is not None
  RATE_LIMIT_ENABLED,  \* settings.RATE_LIMIT_ENABLED
  nreq,                \* number of requests started
  clean,               \* history: no rate-limit store call has raised in the
                       \* current minute window
  loggedOut,           \* history: tokens whose logout wrote a blacklist entry
  rotated,             \* history: refresh tokens consumed by a successful refresh
  attempts,            \* history: rate-checked logins started in a minute window
  retTrue,             \* history: check_rate_limit calls that returned True
  withinTrue,          \* history: same, calls made and returned in one window
  recentTrue,          \* history: True returns at each of the last ticks that
                       \* make up one minute window's length, oldest first
  recentWithin         \* history: same, calls made and returned in one window

vars == << now, users, last_login_at, blacklist, rate, req, issued, redis_client,
           RATE_LIMIT_ENABLED, nreq, clean, loggedOut, rotated, attempts,
           retTrue, withinTrue, recentTrue, recentWithin >>

NoTTL == -1

\* The pieces of a string between its colons, for the strings that occur as
\* user_id or request_type.
Segments(str) ==
  CASE str = "ip:h1" -> << "ip", "h1" >>
    [] str = "api_key:k1" -> << "api_key", "k1" >>
    [] OTHER -> << str >>

\* (mutant) the key leaves out the request type
FormatRateKey_NoType(user_id, request_type, window_name, index) ==
  << "rate_limit" >> \o Segments(user_id) \o << window_name, index >>

\* f"rate_limit:{user_id}:{request_type}:{window_name}:{current_time // window_size}"
\* as the sequence of its colon-separated pieces
FormatRateKey(user_id, request_type, window_name, index) ==
  << "rate_limit" >> \o Segments(user_id) \o Segments(request_type)
    \o << window_name, index >>

\* The model starts one second after alice logged in: the pair issued by
\* that login, and the hour and day counters it left in the store.
PriorLogin == 0 - TicksPerSec
PriorAccess == create_access_token("u1", PriorLogin)
PriorRefresh == create_refresh_token("u1", PriorLogin)

\* An access token issued at the same time to a user whose row has since
\* been deleted from the users table.
GoneAccess == create_access_token("u2", PriorLogin)

PriorRate ==
  LET key(g) == FormatRateKey("u1", "login", windows[g].name,
                              Seconds(PriorLogin) \div windows[g].size)
  IN  [k \in {key(2), key(3)} |->
         [count |-> 1,
          ttl |-> PriorLogin + (IF k = key(2) THEN HOUR ELSE DAY) * TicksPerSec]]

\* what validate_password_strength returns, with the password it was given
NoResult == [password |-> << >>, valid |-> FALSE, errors |-> << >>, strength |-> ""]

IdleReq ==
  [op |-> "none", pc |-> "idle", username |-> "", password |-> "",
   token |-> NoToken, payload |-> NoToken, user |-> NoUser,
   user_id |-> "", request_type |-> "", checked |-> FALSE,
   current_time |-> 0, g |-> 0, count |-> 0, allowed |-> TRUE,
   ttl |-> 0, pair |-> NoPair, status |-> 0, detail |-> "",
   audit |-> << >>, raised |-> {}, k |-> 0, in_window |-> FALSE,
   clean |-> FALSE, expire |-> 0, result |-> NoResult, before |-> << >>]

Init ==
  /\ now = 0
  /\ users = [u \in {"alice"} |->
               [id |-> "u1", hashed_password |-> get_password_hash("Secret1!"),
                is_active |-> TRUE]]
  /\ last_login_at = [i \in {"u1"} |-> Seconds(PriorLogin)]
  /\ blacklist = << >>
  /\ req = [p \in Procs |-> IdleReq]
  /\ issued = {PriorAccess, PriorRefresh, GoneAccess}
  /\ redis_client \in BOOLEAN
  /\ RATE_LIMIT_ENABLED \in BOOLEAN
  /\ rate = IF redis_client /\ RATE_LIMIT_ENABLED THEN PriorRate ELSE << >>
  /\ nreq = 0
  /\ clean = TRUE
  /\ loggedOut = {}
  /\ rotated = {}
  /\ attempts = 0
  /\ retTrue = [g \in 1..3 |-> 0]
  /\ withinTrue = [g \in 1..3 |-> 0]
  /\ recentTrue = [i \in 1..(MINUTE * TicksPerSec) |-> 0]
  /\ recentWithin = [i \in 1..(MINUTE * TicksPerSec) |-> 0]

cfg == << redis_client, RATE_LIMIT_ENABLED >>

\* The store in the middle of a busy hour: besides the counters of PriorRate,
\* the hour and day counters of alice's logins for the windows that hold
\* time 0, at counts h and d left by earlier logins (logins turned away by
\* the hour limit raise h alone, logins of the day's earlier hours d alone).
\* With the limits of the configuration the minute windows of an hour admit
\* more logins than the hour limit; the scaled windows of this model do not,
\* so such a store is given as a starting point.
BusyRate(h, d) ==
  LET hourKey == FormatRateKey("u1", "login", "hour", 0)
      dayKey == FormatRateKey("u1", "login", "day", 0)
      keys == DOMAIN PriorRate \cup (IF h > 0 THEN {hourKey} ELSE {})
                               \cup (IF d > 0 THEN {dayKey} ELSE {})
  IN  [k \in keys |->
         IF k = hourKey THEN [count |-> h, ttl |-> HOUR * TicksPerSec]
         ELSE IF k = dayKey THEN [count |-> d, ttl |-> DAY * TicksPerSec]
         ELSE PriorRate[k]]

BusyInit ==
  /\ now = 0
  /\ users = [u \in {"alice"} |->
               [id |-> "u1", hashed_password |-> get_password_hash("Secret1!"),
                is_active |-> TRUE]]
  /\ last_login_at = [i \in {"u1"} |-> Seconds(PriorLogin)]
  /\ blacklist = << >>
  /\ req = [p \in Procs |-> IdleReq]
  /\ issued = {PriorAccess, PriorRefresh, GoneAccess}
  /\ redis_client = TRUE
  /\ RATE_LIMIT_ENABLED = TRUE
  /\ \E h \in 0..RATE_LIMIT_PER_HOUR : \E d \in 0..RATE_LIMIT_PER_DAY :
       rate = BusyRate(h, d)
  /\ nreq = 0
  /\ clean = TRUE
  /\ loggedOut = {}
  /\ rotated = {}
  /\ attempts = 0
  /\ retTrue = [g \in 1..3 |-> 0]
  /\ withinTrue = [g \in 1..3 |-> 0]
  /\ recentTrue = [i \in 1..(MINUTE * TicksPerSec) |-> 0]
  /\ recentWithin = [i \in 1..(MINUTE * TicksPerSec) |-> 0]

\* ------------------------------------------------------- the Redis store
\* (mutant) the counter is written with SET instead of INCR
RedisIncr_Set(store, key) ==
  [k \in DOMAIN store \cup {key} |->
     IF k = key THEN [count |-> 1, ttl |-> NoTTL] ELSE store[k]]

\* INCR: creates the key at 1 without a TTL, keeps the TTL of an existing key
RedisIncr(store, key) ==
  IF key \in DOMAIN store
  THEN [store EXCEPT ![key].count = @ + 1]
  ELSE [k \in DOMAIN store \cup {key} |->
          IF k = key THEN [count |-> 1, ttl |-> NoTTL] ELSE store[k]]

\* (mutant) EXPIRE answers without setting anything
RedisExpire_Noop(store, key, seconds, t) == store

\* (mutant) the key is given no time to live at all
RedisExpire_Now(store, key, seconds, t) ==
  [k \in DOMAIN store \ {key} |-> store[k]]

\* EXPIRE key seconds: no effect on a key that does not exist
RedisExpire(store, key, seconds, t) ==
  IF key \in DOMAIN store
  THEN [store EXCEPT ![key].ttl = t + seconds * TicksPerSec]
  ELSE store

\* (mutant) the entry is written for the token and for the refresh token
\* issued in the same second
RedisSetex_WithMate(store, key, seconds, t) ==
  [k \in DOMAIN store
          \cup {key, create_refresh_token(key.sub, key.iat * TicksPerSec)} |->
     IF k \in DOMAIN store /\ k # key THEN store[k]
     ELSE t + seconds * TicksPerSec]

\* SETEX key seconds value
RedisSetex(store, key, seconds, t) ==
  [k \in DOMAIN store \cup {key} |->
     IF k = key THEN t + seconds * TicksPerSec ELSE store[k]]

\* GET key: the value is "1", truthy, exactly when the key exists
RedisGet(store, key) == key \in DOMAIN store

\* A key is gone once its expiry time has been reached.
ExpireBlacklist(store, t) ==
  [k \in {x \in DOMAIN store : store[x] > t} |-> store[k]]

\* (mutant) keys are dropped one tick before their time
ExpireRate_Early(store, t) ==
  [k \in {x \in DOMAIN store : store[x].ttl = NoTTL \/ store[x].ttl > t + 1} |->
     store[k]]

ExpireRate(store, t) ==
  [k \in {x \in DOMAIN store : store[x].ttl = NoTTL \/ store[x].ttl > t} |->
     store[k]]

\* ------------------------------------------------------------- helpers
WinIdx(g, t) == Seconds(t) \div windows[g].size

RateKey(r) ==
  FormatRateKey(r.user_id, r.request_type, windows[r.g].name,
                r.current_time \div windows[r.g].size)

\* (mutant) the query leaves out the is_active condition
ActiveUserById_AnyUser(id) ==
  LET hit == {u \in DOMAIN users : users[u].id = id}
  IN  IF hit = {} THEN NoUser ELSE users[CHOOSE u \in hit : TRUE]

\* select(User).where(User.id == user_id, User.is_active == True)
ActiveUserById(id) ==
  LET hit == {u \in DOMAIN users : users[u].id = id /\ users[u].is_active}
  IN  IF hit = {} THEN NoUser ELSE users[CHOOSE u \in hit : TRUE]

\* The request ends with this HTTP status and detail.  in_window records
\* whether a rate-checked request ends in the minute window it started in,
\* clean whether no store call of a rate check has raised in that window.
Done(r, status, detail) ==
  [r EXCEPT !.pc = "done", !.status = status, !.detail = detail,
            !.in_window = (r.checked /\ r.current_time \div MINUTE = WinIdx(1, now)),
            !.clean = (r.checked /\ clean /\ r.raised = {}),
            !.current_time = 0, !.count = 0, !.ttl = 0, !.before = << >>]

\* the history counters are per current window: zero when the window changes
Roll(n, g, t) == IF WinIdx(g, t + 1) # WinIdx(g, t) THEN 0 ELSE n

\* A request is taken by the first free worker (the workers are alike).
CanStart(p) ==
  /\ req[p].pc \in {"idle", "done"}
  /\ nreq < MaxRequests
  /\ \A q \in Procs : (q # p /\ req[q].pc \in {"idle", "done"}) => p = "p1"

\* a store call may raise (connection error, timeout)
StoreOutcomes == BOOLEAN

\* ------------------------------------------------------------- the clock
Tick ==
  /\ now < MaxTime
  /\ now' = now + 1
  /\ blacklist' = ExpireBlacklist(blacklist, now + 1)
  /\ rate' = ExpireRate(rate, now + 1)
  /\ attempts' = Roll(attempts, 1, now)
  /\ retTrue' = [g \in 1..3 |-> Roll(retTrue[g], g, now)]
  /\ withinTrue' = [g \in 1..3 |-> Roll(withinTrue[g], g, now)]
  /\ recentTrue' = Tail(recentTrue) \o << 0 >>
  /\ recentWithin' = Tail(recentWithin) \o << 0 >>
  /\ clean' = (clean \/ WinIdx(1, now + 1) # WinIdx(1, now))
  /\ UNCHANGED << users, last_login_at, req, issued, cfg, nreq, loggedOut,
                  rotated >>

\* The clock after the last request: it runs on, once no request is under
\* way any more, until every TTL set up to MaxTime has run out.
Horizon == MaxTime + DAY * TicksPerSec

LateTick ==
  /\ now >= MaxTime
  /\ now < Horizon
  /\ \A p \in Procs : req[p].pc \in {"idle", "done"}
  /\ now' = now + 1
  /\ blacklist' = ExpireBlacklist(blacklist, now + 1)
  /\ rate' = ExpireRate(rate, now + 1)
  /\ attempts' = Roll(attempts, 1, now)
  /\ retTrue' = [g \in 1..3 |-> Roll(retTrue[g], g, now)]
  /\ withinTrue' = [g \in 1..3 |-> Roll(withinTrue[g], g, now)]
  /\ recentTrue' = Tail(recentTrue) \o << 0 >>
  /\ recentWithin' = Tail(recentWithin) \o << 0 >>
  /\ clean' = (clean \/ WinIdx(1, now + 1) # WinIdx(1, now))
  /\ UNCHANGED << users, last_login_at, req, issued, cfg, nreq, loggedOut,
                  rotated >>

\* The worker serving a request dies between two store calls of
\* check_rate_limit: nothing of the call runs any more, no answer is sent.
crash(p) ==
  /\ req[p].pc \in {"rl_incr", "rl_expire"}
  /\ req' = [req EXCEPT ![p] =
               Done([req[p] EXCEPT !.raised = @ \cup {"crash"}], 0, "")]
  /\ clean' = FALSE
  /\ UNCHANGED << now, users, last_login_at, blacklist, rate, issued, cfg,
                  nreq, loggedOut, rotated, attempts, retTrue, withinTrue,
                  recentTrue, recentWithin >>

\* an administrator flips User.is_active
SetActive ==
  /\ \E b \in BOOLEAN :
       /\ users["alice"].is_active # b
       /\ users' = [users EXCEPT !["alice"].is_active = b]
  /\ UNCHANGED << now, last_login_at, blacklist, rate, req, issued,
                  cfg, nreq, clean, loggedOut, rotated, attempts, retTrue,
                  withinTrue, recentTrue, recentWithin >>

\* ------------------------------------------------------ check_rate_limit
\* (mutant) the limit test written with >=
LimitExceeded_AtLimit(count, limit) == count >= limit

\* "if count > limit"
LimitExceeded(count, limit) == count > limit

\* (mutant) the rate limit fails closed
RateLimitOnError_Closed == FALSE

\* "except Exception: ... return True" (fail open)
RateLimitOnError == TRUE

\* check_rate_limit has returned r.allowed to login: the rest of the handler.
AfterRateLimit(p, r) ==
  /\ IF r.op = "login" /\ r.allowed /\ r.raised = {} /\ RATE_LIMIT_ENABLED
        /\ redis_client
     THEN /\ retTrue' = [g \in 1..3 |-> retTrue[g] + 1]
          /\ withinTrue' =
               [g \in 1..3 |->
                  IF r.current_time \div windows[g].size = WinIdx(g, now)
                  THEN withinTrue[g] + 1
                  ELSE withinTrue[g]]
          /\ recentTrue' = [recentTrue EXCEPT ![Len(recentTrue)] = @ + 1]
          /\ recentWithin' =
               IF r.current_time \div MINUTE = WinIdx(1, now)
               THEN [recentWithin EXCEPT ![Len(recentWithin)] = @ + 1]
               ELSE recentWithin
     ELSE UNCHANGED << retTrue, withinTrue, recentTrue, recentWithin >>
  /\ IF r.op = "api"
     THEN \* RateLimitMiddleware: the 429 answer, or call_next(request)
          /\ req' = [req EXCEPT ![p] =
                IF ~r.allowed THEN Done(r, 429, "Rate limit exceeded")
                              ELSE Done(r, 200, "")]
          /\ UNCHANGED << issued, last_login_at >>
     ELSE IF ~r.allowed
     THEN /\ req' = [req EXCEPT ![p] = Done(r, 429, "Too many login attempts")]
          /\ UNCHANGED << issued, last_login_at >>
     ELSE LET access_token == create_access_token(r.user.id, now)
              refresh_tok == create_refresh_token(r.user.id, now)
          IN  /\ issued' = issued \cup {access_token, refresh_tok}
              /\ last_login_at' = [last_login_at EXCEPT ![r.user.id] = Seconds(now)]
              /\ req' = [req EXCEPT ![p] =
                   Done([r EXCEPT !.pair = [access_token |-> access_token,
                                            refresh_token |-> refresh_tok],
                                  !.audit = Append(@, "login_success")],
                        200, "")]

\* (mutant) the loop goes through all the windows before it answers
AfterCount_AllWindows(p, r) ==
  LET r1 == [r EXCEPT !.allowed =
               r.allowed /\ ~LimitExceeded(r.count, windows[r.g].limit)]
  IN  IF r.g < Len(windows)
      THEN /\ req' = [req EXCEPT ![p] = [r1 EXCEPT !.g = @ + 1, !.pc = "rl_incr"]]
           /\ UNCHANGED << issued, last_login_at, retTrue, withinTrue,
                           recentTrue, recentWithin >>
      ELSE AfterRateLimit(p, r1)

\* the limit test that follows incr (and expire) for the window r.g
AfterCount(p, r) ==
  IF LimitExceeded(r.count, windows[r.g].limit)
  THEN AfterRateLimit(p, [r EXCEPT !.allowed = FALSE])
  ELSE IF r.g < Len(windows)
       THEN /\ req' = [req EXCEPT ![p] = [r EXCEPT !.g = @ + 1, !.pc = "rl_incr"]]
            /\ UNCHANGED << issued, last_login_at, retTrue, withinTrue, recentTrue, recentWithin >>
       ELSE AfterRateLimit(p, [r EXCEPT !.allowed = TRUE])

\* entry of check_rate_limit(user_id, request_type)
check_rate_limit(p, r) ==
  IF ~RATE_LIMIT_ENABLED \/ ~redis_client
  THEN /\ AfterRateLimit(p, [r EXCEPT !.checked = TRUE, !.allowed = TRUE])
       /\ UNCHANGED attempts
  ELSE /\ attempts' = IF r.op = "login" THEN attempts + 1 ELSE attempts
       /\ req' = [req EXCEPT ![p] =
                [r EXCEPT !.checked = TRUE, !.current_time = Seconds(now),
                          !.g = 1, !.pc = "rl_incr", !.k = attempts',
                          !.before = rate]]
           /\ UNCHANGED << issued, last_login_at, retTrue, withinTrue, recentTrue, recentWithin >>

\* count = await self.redis_client.incr(key)
rl_incr(p) ==
  /\ req[p].pc = "rl_incr"
  /\ \E ok \in StoreOutcomes :
       IF ok
       THEN /\ rate' = RedisIncr(rate, RateKey(req[p]))
            /\ clean' = clean
            /\ LET r == [req[p] EXCEPT !.count = rate'[RateKey(req[p])].count]
               IN  IF r.count = 1
                   THEN /\ req' = [req EXCEPT ![p] = [r EXCEPT !.pc = "rl_expire"]]
                        /\ UNCHANGED << issued, last_login_at, retTrue,
                                        withinTrue, recentTrue, recentWithin >>
                   ELSE AfterCount(p, r)
       ELSE /\ rate' = rate
            /\ clean' = FALSE
            /\ AfterRateLimit(p, [req[p] EXCEPT !.raised = @ \cup {"incr"},
                                               !.allowed = RateLimitOnError])
  /\ UNCHANGED << now, users, blacklist, cfg, nreq, loggedOut, rotated, attempts >>

\* if count == 1: await self.redis_client.expire(key, window_size)
rl_expire(p) ==
  /\ req[p].pc = "rl_expire"
  /\ \E ok \in StoreOutcomes :
       IF ok
       THEN /\ rate' = RedisExpire(rate, RateKey(req[p]),
                                   windows[req[p].g].size, now)
            /\ clean' = clean
            /\ AfterCount(p, req[p])
       ELSE /\ rate' = rate
            /\ clean' = FALSE
            /\ AfterRateLimit(p, [req[p] EXCEPT !.raised = @ \cup {"expire"},
                                               !.allowed = RateLimitOnError])
  /\ UNCHANGED << now, users, blacklist, cfg, nreq, loggedOut, rotated, attempts >>

\* --------------------------------------------------- RateLimitMiddleware
TokenInputs == issued \cup {ForgedToken}

\* The requests the middleware sees: without a bearer token or with the
\* access token of the earlier login, with or without an x-api-key header;
\* the client host is h1.
MiddlewareInputs ==
  [authorization : {NoToken, PriorAccess}, api_key : {"", "k1"}]

\* user_id when no token identifies the caller:
\* f"api_key:{api_key[:8]}", else f"ip:{request.client.host}"
FallbackUserId(api_key) ==
  IF api_key # "" THEN "api_key:k1" ELSE "ip:h1"

\* The middleware has settled user_id (decoded says whether decode_token
\* returned the payload; "except: pass" covers every failure) and calls
\* check_rate_limit(user_id) with the default request_type "api".
MiddlewareIdentified(p, r, decoded) ==
  /\ check_rate_limit(p, IF decoded
                         THEN [r EXCEPT !.payload = r.token,
                                        !.user_id = r.token.sub]
                         ELSE r)
  /\ UNCHANGED rotated

RateLimitMiddleware(p) ==
  /\ CanStart(p)
  /\ nreq' = nreq + 1
  /\ \E h \in MiddlewareInputs :
       LET r == [IdleReq EXCEPT !.op = "api", !.token = h.authorization,
                                !.user_id = FallbackUserId(h.api_key),
                                !.request_type = "api"]
       IN  IF h.authorization = NoToken \/ ~jwt_decode_ok(h.authorization, now)
           THEN MiddlewareIdentified(p, r, FALSE)
           ELSE IF redis_client
                THEN /\ req' = [req EXCEPT ![p] = [r EXCEPT !.pc = "get"]]
                     /\ UNCHANGED << issued, last_login_at, rotated, attempts,
                                     retTrue, withinTrue, recentTrue, recentWithin >>
                ELSE MiddlewareIdentified(p, r, TRUE)
  /\ UNCHANGED << now, users, blacklist, rate, cfg, clean, loggedOut >>

\* ----------------------------------------------------------------- login
\* (mutant) the password is not looked at
LoginCheck_NoPassword(user, password) ==
  IF user = NoUser THEN "invalid"
  ELSE IF ~user.is_active THEN "inactive" ELSE "ok"

\* (mutant) the disabled account is tested before the password
LoginCheck_ActiveFirst(user, password) ==
  IF user # NoUser /\ ~user.is_active THEN "inactive"
  ELSE IF user = NoUser \/ ~verify_password(password, user.hashed_password)
       THEN "invalid"
       ELSE "ok"

\* the checks of login before the rate limit, in the order of the code
LoginCheck(user, password) ==
  IF user = NoUser \/ ~verify_password(password, user.hashed_password)
  THEN "invalid"
  ELSE IF ~user.is_active THEN "inactive" ELSE "ok"

\* (mutant) a failed login writes no audit row
LoginFailedAudit_None(user) == << >>

\* "if user: audit_log = AuditLog(..., action="login_failed")": the audit
\* rows a rejected password leaves
LoginFailedAudit(user) ==
  IF user # NoUser THEN << "login_failed" >> ELSE << >>

\* (mutant) the message tells an unknown user from a wrong password
InvalidCredentialsDetail_Leaky(user) ==
  IF user = NoUser THEN "Unknown username" ELSE "Incorrect password"

\* detail of the 401 raised when "not user or not verify_password(...)"
InvalidCredentialsDetail(user) == "Incorrect username or password"

login(p) ==
  /\ CanStart(p)
  /\ nreq' = nreq + 1
  /\ \E cred \in Credentials :
       LET username == cred[1]
           password == cred[2]
           user == IF username \in DOMAIN users THEN users[username] ELSE NoUser
           r == [IdleReq EXCEPT !.op = "login", !.username = username,
                                !.password = password, !.user = user,
                                !.user_id = user.id, !.request_type = "login"]
           verdict == LoginCheck(user, password)
       IN  CASE verdict = "invalid" ->
                  /\ req' = [req EXCEPT ![p] =
                       Done([r EXCEPT !.audit = @ \o LoginFailedAudit(user)],
                            401, InvalidCredentialsDetail(user))]
                  /\ UNCHANGED << issued, last_login_at, retTrue, withinTrue, recentTrue, recentWithin,
                                  attempts >>
             [] verdict = "inactive" ->
                  /\ req' = [req EXCEPT ![p] =
                       Done(r, 403, "User account is disabled")]
                  /\ UNCHANGED << issued, last_login_at, retTrue, withinTrue, recentTrue, recentWithin,
                                  attempts >>
             [] OTHER -> check_rate_limit(p, r)
  /\ UNCHANGED << now, users, blacklist, rate, cfg, clean, loggedOut, rotated >>

\* ---------------------------------------------------------- decode_token
\* (mutant) decode_token without the blacklist test
IsBlacklisted_Skipped(store, token) == FALSE

\* "is_blacklisted = await self.redis_client.get(...); if is_blacklisted"
IsBlacklisted(store, token) == RedisGet(store, token)

\* blacklist_token: ttl = expire_time or max(exp - utcnow().timestamp(), 0),
\* in ticks (the sub-second part is kept)
BlacklistTtlTicks(token, t) ==
  IF token.exp * TicksPerSec - t > 0 THEN token.exp * TicksPerSec - t ELSE 0

\* int(ttl), the whole seconds handed to setex
BlacklistTtlSeconds(token, t) == BlacklistTtlTicks(token, t) \div TicksPerSec


\* The part of blacklist_token before its store call, for the request r that
\* otherwise ends as `fin`: without a client it returns at once; with ttl > 0
\* it goes on to setex.  `clean` says the handler saw no store outage.
blacklist_token(p, r, fin) ==
  IF redis_client /\ BlacklistTtlTicks(r.token, now) > 0
  THEN /\ req' = [req EXCEPT ![p] =
            [r EXCEPT !.pc = "setex",
                      !.ttl = BlacklistTtlSeconds(r.token, now)]]
       /\ UNCHANGED rotated
  ELSE /\ req' = [req EXCEPT ![p] = fin]
       /\ rotated' = IF r.op = "refresh" /\ redis_client /\ r.raised = {}
                     THEN rotated \cup {r.token} ELSE rotated

\* decode_token has returned the payload: the rest of the handler up to the
\* next store call.
AfterDecode(p, r) ==
  IF r.op = "refresh"
  THEN IF r.payload.type # "refresh"
       THEN /\ req' = [req EXCEPT ![p] = Done(r, 401, "Invalid token type")]
            /\ UNCHANGED << issued, last_login_at, rotated >>
       ELSE LET user == ActiveUserById(r.payload.sub)
            IN  IF user = NoUser
                THEN /\ req' = [req EXCEPT ![p] = Done(r, 401, "User not found")]
                     /\ UNCHANGED << issued, last_login_at, rotated >>
                ELSE LET access_token == create_access_token(user.id, now)
                         refresh_tok == create_refresh_token(user.id, now)
                         r1 == [r EXCEPT !.user = user,
                                  !.pair = [access_token |-> access_token,
                                            refresh_token |-> refresh_tok]]
                     IN  /\ issued' = issued \cup {access_token, refresh_tok}
                         /\ last_login_at' = last_login_at
                         /\ blacklist_token(p, r1, Done(r1, 200, ""))
  ELSE \* get_current_user, and logout which depends on it
       LET user == ActiveUserById(r.payload.sub)
       IN  IF user = NoUser
           THEN /\ req' = [req EXCEPT ![p] = Done(r, 401, "User not found")]
                /\ UNCHANGED << issued, last_login_at, rotated >>
           ELSE LET r1 == [r EXCEPT !.user = user]
                IN  /\ last_login_at' =
                         [last_login_at EXCEPT ![user.id] = Seconds(now)]
                    /\ issued' = issued
                    /\ IF r.op = "logout"
                       THEN blacklist_token(p, r1,
                              Done([r1 EXCEPT !.audit = Append(@, "logout")],
                                   200, "Successfully logged out"))
                       ELSE /\ req' = [req EXCEPT ![p] = Done(r1, 200, "")]
                            /\ UNCHANGED rotated

\* jwt.decode at the head of decode_token, for a request of kind op
decode_token(p, op) ==
  /\ CanStart(p)
  /\ nreq' = nreq + 1
  /\ \E token \in TokenInputs :
       LET r == [IdleReq EXCEPT !.op = op, !.token = token]
       IN  IF ~jwt_decode_ok(token, now)
           THEN /\ req' = [req EXCEPT ![p] =
                     Done(r, 401, "Could not validate credentials")]
                /\ UNCHANGED << issued, last_login_at, rotated >>
           ELSE IF redis_client
                THEN /\ req' = [req EXCEPT ![p] = [r EXCEPT !.pc = "get"]]
                     /\ UNCHANGED << issued, last_login_at, rotated >>
                ELSE AfterDecode(p, [r EXCEPT !.payload = token])
  /\ UNCHANGED << now, users, blacklist, rate, cfg, clean, loggedOut, attempts,
                  retTrue, withinTrue, recentTrue, recentWithin >>

\* POST /refresh
refresh_token(p) == decode_token(p, "refresh")

\* a protected request: Depends(get_current_user)
get_current_user(p) == decode_token(p, "verify")

\* POST /logout
logout(p) == decode_token(p, "logout")

\* The handler's answer when the blacklist lookup raises: the exception is no
\* JWTError, so it leaves decode_token and meets "except Exception" of the
\* caller.
OnGetError(r) ==
  IF r.op = "refresh"
  THEN Done(r, 401, "Invalid refresh token")
  ELSE Done(r, 401, "Could not validate credentials")

\* is_blacklisted = await self.redis_client.get(f"blacklist:{token}")
redis_get(p) ==
  /\ req[p].pc = "get"
  /\ \E ok \in StoreOutcomes :
       IF ok
       THEN /\ IF IsBlacklisted(blacklist, req[p].token)
               THEN IF req[p].op = "api"
                    THEN MiddlewareIdentified(p, req[p], FALSE)
                    ELSE /\ req' = [req EXCEPT ![p] =
                              Done(req[p], 401, "Token has been revoked")]
                         /\ UNCHANGED << issued, last_login_at, rotated >>
               ELSE IF req[p].op = "api"
                    THEN MiddlewareIdentified(p, req[p], TRUE)
                    ELSE AfterDecode(p, [req[p] EXCEPT !.payload = req[p].token])
       ELSE IF req[p].op = "api"
            THEN MiddlewareIdentified(
                   p, [req[p] EXCEPT !.raised = @ \cup {"get"}], FALSE)
            ELSE /\ req' = [req EXCEPT ![p] =
                      OnGetError([req[p] EXCEPT !.raised = @ \cup {"get"}])]
                 /\ UNCHANGED << issued, last_login_at, rotated >>
  /\ UNCHANGED << now, users, blacklist, rate, cfg, nreq, clean, loggedOut,
                  attempts, retTrue, withinTrue, recentTrue, recentWithin >>

\* (mutant) blacklist_token without its try/except: the error reaches the
\* handler
AfterSetex_Propagates(r) ==
  IF r.raised \cap {"setex", "setex_arg"} # {}
  THEN IF r.op = "refresh"
       THEN Done(r, 401, "Invalid refresh token")
       ELSE Done(r, 500, "Internal Server Error")
  ELSE IF r.op = "logout"
       THEN Done([r EXCEPT !.audit = Append(@, "logout")],
                 200, "Successfully logged out")
       ELSE Done(r, 200, "")

\* blacklist_token has returned (its "except Exception" logs and swallows
\* an error of setex): the handler's return
AfterSetex(r) ==
  IF r.op = "logout"
  THEN Done([r EXCEPT !.audit = Append(@, "logout")],
            200, "Successfully logged out")
  ELSE Done(r, 200, "")

\* await self.redis_client.setex(f"blacklist:{token}", int(ttl), "1") and the
\* rest of the handler.  Redis refuses an expire time of 0 ("invalid expire
\* time"); that error, like an outage, is caught and logged.
redis_setex(p) ==
  /\ req[p].pc = "setex"
  /\ \E ok \in StoreOutcomes :
       LET r    == req[p]
           sent == ok /\ r.ttl > 0
           r1   == IF sent THEN r
                   ELSE IF ok THEN [r EXCEPT !.raised = @ \cup {"setex_arg"}]
                   ELSE [r EXCEPT !.raised = @ \cup {"setex"}]
       IN  /\ blacklist' = IF sent
                           THEN RedisSetex(blacklist, r.token, r.ttl, now)
                           ELSE blacklist
           /\ req' = [req EXCEPT ![p] = AfterSetex(r1)]
           /\ loggedOut' = IF sent /\ r.op = "logout"
                           THEN loggedOut \cup {r.token} ELSE loggedOut
           /\ rotated' = IF ok /\ r.op = "refresh"
                         THEN rotated \cup {r.token} ELSE rotated
  /\ UNCHANGED << now, users, last_login_at, rate, issued, cfg, nreq, clean,
                  attempts, retTrue, withinTrue, recentTrue, recentWithin >>

\* ------------------------------------------ validate_password_strength
\* A password is the sequence of its characters.  The characters the
\* patterns of the code are tried on: [A-Z], [a-z], \d, the special
\* characters of [!@#$%^&*(),.?\":{}|<>] (all twenty), and two characters no
\* pattern matches.
UpperChars == {"A", "P"}
LowerChars == {"b", "d", "h", "o", "r", "s", "t", "w"}
DigitChars == {"0", "1", "2", "3"}
SpecialChars == {"!", "@", "#", "$", "%", "^", "&", "*", "(", ")", ",", ".",
                 "?", "\"", ":", "{", "}", "|", "<", ">"}
OtherChars == {"-", " "}

\* re.search(pattern, password) for a pattern that is one character class
re_search(class, password) == \E i \in 1..Len(password) : password[i] \in class

\* (mutant) the top tier is reached with six points
StrengthTier_SixIsTop(score) ==
  IF score < 3 THEN "weak"
  ELSE IF score < 5 THEN "medium"
  ELSE IF score < 6 THEN "strong"
  ELSE "very_strong"

\* "Map score to strength"
StrengthTier(score) ==
  IF score < 3 THEN "weak"
  ELSE IF score < 5 THEN "medium"
  ELSE IF score < 7 THEN "strong"
  ELSE "very_strong"

Point(b) == IF b THEN 1 ELSE 0

\* _calculate_password_strength
calculate_password_strength(password) ==
  StrengthTier(Point(Len(password) >= 8) + Point(Len(password) >= 12)
               + Point(Len(password) >= 16)
               + Point(re_search(UpperChars, password))
               + Point(re_search(LowerChars, password))
               + Point(re_search(DigitChars, password))
               + Point(re_search(SpecialChars, password)))

\* (mutant) a password of eight characters is still too short
TooShort_Eight(password) == Len(password) <= 8

\* "if len(password) < 8"
TooShort(password) == Len(password) < 8

ErrorIf(b, message) == IF b THEN << message >> ELSE << >>

PasswordErrors(password) ==
  ErrorIf(TooShort(password), "Password must be at least 8 characters long")
  \o ErrorIf(~re_search(UpperChars, password),
             "Password must contain at least one uppercase letter")
  \o ErrorIf(~re_search(LowerChars, password),
             "Password must contain at least one lowercase letter")
  \o ErrorIf(~re_search(DigitChars, password),
             "Password must contain at least one digit")
  \o ErrorIf(~re_search(SpecialChars, password),
             "Password must contain at least one special character")

PasswordResult(password) ==
  [password |-> password,
   valid |-> Len(PasswordErrors(password)) = 0,
   errors |-> PasswordErrors(password),
   strength |-> calculate_password_strength(password)]

\* The passwords tried: the two of the examples, and for every choice among
\* five characters (one of each class, one of no class) the chosen
\* characters repeated up to every length 0..MaxPasswordLen.
ExamplePasswords ==
  { << "P", "@", "s", "s", "w", "0", "r", "d", "1", "2", "3", "!" >>,
    << "s", "h", "o", "r", "t" >> }

SeedChars == << "A", "b", "1", "!", "-" >>

Seed(T) == SelectSeq(SeedChars, LAMBDA c : c \in T)

Repeated(seed, n) == [i \in 1..n |-> seed[((i - 1) % Len(seed)) + 1]]

PasswordInputs ==
  ExamplePasswords
  \cup { Repeated(Seed(T), n) :
           T \in (SUBSET {"A", "b", "1", "!", "-"}) \ {{}},
           n \in 0..MaxPasswordLen }

validate_password_strength(p) ==
  /\ CanStart(p)
  /\ nreq' = nreq + 1
  /\ \E password \in PasswordInputs :
       req' = [req EXCEPT ![p] =
                 [IdleReq EXCEPT !.op = "strength", !.pc = "done",
                                 !.result = PasswordResult(password)]]
  /\ UNCHANGED << now, users, last_login_at, blacklist, rate, issued, cfg,
                  clean, loggedOut, rotated, attempts, retTrue, withinTrue,
                  recentTrue, recentWithin >>

\* ------------------------------------------- create_*_token, read by read
\* The lifetime a token kind gets when expires_delta is not given, in ticks.
DefaultDelta(kind) ==
  IF kind = "access" THEN ACCESS_TOKEN_EXPIRE * TicksPerSec
                     ELSE REFRESH_TOKEN_EXPIRE * TicksPerSec

\* create_access_token(subject) / create_refresh_token(subject) up to
\* "expire = datetime.utcnow() + timedelta(...)", the first clock read
issue_token(p) ==
  /\ CanStart(p)
  /\ nreq' = nreq + 1
  /\ \E subject \in {"u1", "u2"} : \E kind \in {"access", "refresh"} :
       req' = [req EXCEPT ![p] =
                 [IdleReq EXCEPT !.op = "issue", !.pc = "iat",
                                 !.user_id = subject, !.request_type = kind,
                                 !.expire = now + DefaultDelta(kind)]]
  /\ UNCHANGED << now, users, last_login_at, blacklist, rate, issued, cfg,
                  clean, loggedOut, rotated, attempts, retTrue, withinTrue,
                  recentTrue, recentWithin >>

\* the rest of create_*_token: to_encode with "iat": datetime.utcnow(), and
\* jwt.encode
issue_iat(p) ==
  /\ req[p].pc = "iat"
  /\ LET r == req[p]
         token == jwt_encode(r.user_id, r.request_type, r.expire, now)
     IN  /\ issued' = issued \cup {token}
         /\ req' = [req EXCEPT ![p] =
                      [r EXCEPT !.pc = "done", !.token = token, !.status = 200]]
  /\ UNCHANGED << now, users, last_login_at, blacklist, rate, cfg, nreq,
                  clean, loggedOut, rotated, attempts, retTrue, withinTrue,
                  recentTrue, recentWithin >>

\* security_manager.blacklist_token(token) called for a token issued earlier
revoke(p) ==
  /\ CanStart(p)
  /\ nreq' = nreq + 1
  /\ \E token \in issued :
       LET r == [IdleReq EXCEPT !.op = "revoke", !.token = token]
       IN  blacklist_token(p, r, Done(r, 200, ""))
  /\ UNCHANGED << now, users, last_login_at, blacklist, rate, issued, cfg,
                  clean, loggedOut, attempts, retTrue, withinTrue,
                  recentTrue, recentWithin >>

\* --------------------------------------------------------- specifications
Next ==
  \/ Tick
  \/ SetActive
  \/ \E p \in Procs : login(p)
  \/ \E p \in Procs : rl_incr(p)
  \/ \E p \in Procs : rl_expire(p)
  \/ \E p \in Procs : refresh_token(p)
  \/ \E p \in Procs : get_current_user(p)
  \/ \E p \in Procs : logout(p)
  \/ \E p \in Procs : redis_get(p)
  \/ \E p \in Procs : redis_setex(p)

Spec == Init /\ [][Next]_vars

\* The token flows alone (refresh, protected requests, logout), served
\* concurrently.
TokenNext ==
  \/ Tick
  \/ SetActive
  \/ \E p \in Procs : refresh_token(p)
  \/ \E p \in Procs : get_current_user(p)
  \/ \E p \in Procs : logout(p)
  \/ \E p \in Procs : redis_get(p)
  \/ \E p \in Procs : redis_setex(p)

TokenSpec == Init /\ [][TokenNext]_vars

\* Login and its rate limit alone, served concurrently.
LoginNext ==
  \/ Tick
  \/ SetActive
  \/ \E p \in Procs : login(p)
  \/ \E p \in Procs : rl_incr(p)
  \/ \E p \in Procs : rl_expire(p)

LoginSpec == Init /\ [][LoginNext]_vars

\* One request at a time: a request starts only when no other is under way.
\* (the token flows, then login)
Solo(p) == \A q \in Procs \ {p} : req[q].pc \in {"idle", "done"}

SeqNext ==
  \/ Tick
  \/ SetActive
  \/ \E p \in Procs : Solo(p) /\ login(p)
  \/ \E p \in Procs : Solo(p) /\ rl_incr(p)
  \/ \E p \in Procs : Solo(p) /\ rl_expire(p)

SeqSpec == Init /\ [][SeqNext]_vars

\* requests passing the middleware, one at a time
RateSeqNext ==
  \/ Tick
  \/ \E p \in Procs : Solo(p) /\ RateLimitMiddleware(p)
  \/ \E p \in Procs : Solo(p) /\ redis_get(p)
  \/ \E p \in Procs : Solo(p) /\ rl_incr(p)
  \/ \E p \in Procs : Solo(p) /\ rl_expire(p)

RateSeqSpec == Init /\ [][RateSeqNext]_vars

\* login, refresh, logout and protected requests, one at a time
AuthSeqNext ==
  \/ Tick
  \/ \E p \in Procs : Solo(p) /\ login(p)
  \/ \E p \in Procs : Solo(p) /\ rl_incr(p)
  \/ \E p \in Procs : Solo(p) /\ rl_expire(p)
  \/ \E p \in Procs : Solo(p) /\ refresh_token(p)
  \/ \E p \in Procs : Solo(p) /\ get_current_user(p)
  \/ \E p \in Procs : Solo(p) /\ logout(p)
  \/ \E p \in Procs : Solo(p) /\ redis_get(p)
  \/ \E p \in Procs : Solo(p) /\ redis_setex(p)

AuthSeqSpec == Init /\ [][AuthSeqNext]_vars

\* the token codec called on its own, by one worker or by two
IssueNext ==
  \/ Tick
  \/ \E p \in Procs : issue_token(p)
  \/ \E p \in Procs : issue_iat(p)

IssueSpec == Init /\ [][IssueNext]_vars

\* tokens issued and then revoked by direct calls, one call at a time
RevokeNext ==
  \/ Tick
  \/ \E p \in Procs : Solo(p) /\ issue_token(p)
  \/ \E p \in Procs : Solo(p) /\ issue_iat(p)
  \/ \E p \in Procs : Solo(p) /\ revoke(p)
  \/ \E p \in Procs : Solo(p) /\ redis_setex(p)

RevokeSpec == Init /\ [][RevokeNext]_vars

\* the password rules applied to one password after another
StrengthNext ==
  \E p \in Procs : validate_password_strength(p)

StrengthSpec == Init /\ [][StrengthNext]_vars

\* logins one at a time, starting in a busy hour
BusySeqNext ==
  \/ Tick
  \/ \E p \in Procs : Solo(p) /\ login(p)
  \/ \E p \in Procs : Solo(p) /\ rl_incr(p)
  \/ \E p \in Procs : Solo(p) /\ rl_expire(p)

BusySeqSpec == BusyInit /\ [][BusySeqNext]_vars

\* Logins and their rate limit, one request at a time, served by workers
\* that may die, the clock running on after the last request.  The event
\* loop resumes a coroutine once its store call is answered, and time passes.
RateLiveNext ==
  \/ Tick
  \/ LateTick
  \/ \E p \in Procs : now <= MaxTime /\ Solo(p) /\ login(p)
  \/ \E p \in Procs : Solo(p) /\ rl_incr(p)
  \/ \E p \in Procs : Solo(p) /\ rl_expire(p)
  \/ \E p \in Procs : Solo(p) /\ crash(p)

RateLiveSpec ==
  /\ Init
  /\ [][RateLiveNext]_vars
  /\ WF_vars(Tick)
  /\ WF_vars(LateTick)
  /\ \A p \in Procs : /\ WF_vars(Solo(p) /\ rl_incr(p))
                       /\ WF_vars(Solo(p) /\ rl_expire(p))

TokenSeqNext ==
  \/ Tick
  \/ SetActive
  \/ \E p \in Procs : Solo(p) /\ refresh_token(p)
  \/ \E p \in Procs : Solo(p) /\ get_current_user(p)
  \/ \E p \in Procs : Solo(p) /\ logout(p)
  \/ \E p \in Procs : Solo(p) /\ redis_get(p)
  \/ \E p \in Procs : Solo(p) /\ redis_setex(p)

TokenSeqSpec == Init /\ [][TokenSeqNext]_vars

\* ------------------------------------------------------------ properties
TokenOps == {"refresh", "verify", "logout"}

Unexpired(token, t) == Seconds(t) <= token.exp

\* p's request leaves decode_token's store lookup in this step, the store
\* having answered
LookupAnswered(p) ==
  /\ req[p].pc = "get"
  /\ req'[p].pc # "get"
  /\ "get" \notin req'[p].raised

\* C1: with the store reachable, decode_token returns the claims exactly
\* when the signature verifies, the token is unexpired when jwt.decode runs,
\* and the store holds no blacklist entry for the token when it is looked up.
C1_DecodeIffValid ==
  [][ redis_client =>
        \A p \in Procs :
          /\ ( /\ nreq' = nreq + 1
               /\ req'[p] # req[p]
               /\ req'[p].op \in TokenOps )
             => ( (req'[p].pc = "get")
                    <=> (req'[p].token.sig /\ Unexpired(req'[p].token, now)) )
          /\ (req'[p].pc = "get" /\ req[p].pc # "get") => req'[p].payload = NoToken
          /\ LookupAnswered(p)
             => ( (req'[p].payload = req[p].token)
                    <=> (req[p].token \notin DOMAIN blacklist) )
          /\ (req'[p].op \in TokenOps /\ req'[p].payload # NoToken)
             => req'[p].payload = req'[p].token ]_vars

\* C1 witness: a correctly signed, unexpired token is refused because the
\* store holds its blacklist entry.
C1_Witness ==
  \E p \in Procs :
    /\ req[p].pc = "done"
    /\ req[p].op \in {"verify", "refresh"}
    /\ req[p].detail = "Token has been revoked"
    /\ req[p].payload = NoToken
    /\ req[p].token.sig /\ Unexpired(req[p].token, now)
    /\ req[p].token \in DOMAIN blacklist

\* C2: once logout has written the blacklist entry of access token t, every
\* protected request presenting t whose lookup the store answers while t is
\* unexpired (now <= t.exp, whole seconds) is refused as revoked.
C2_LogoutRevokesForGood ==
  [][ \A p \in Procs :
        ( /\ LookupAnswered(p)
          /\ req[p].op = "verify"
          /\ req[p].token.type = "access"
          /\ req[p].token \in loggedOut
          /\ Unexpired(req[p].token, now) )
        => req'[p].detail = "Token has been revoked" ]_vars

\* C3: once a refresh has returned a new pair for refresh token r, every
\* later use of r (refresh or protected request) whose lookup the store
\* answers while r is unexpired is refused as revoked.
C3_RotatedStaysRevoked ==
  [][ \A p \in Procs :
        ( /\ LookupAnswered(p)
          /\ req[p].op \in {"verify", "refresh"}
          /\ req[p].token \in rotated
          /\ Unexpired(req[p].token, now) )
        => req'[p].detail = "Token has been revoked" ]_vars

\* C4: two refresh requests under way at the same time for the same refresh
\* token never both get past the revocation check to a new pair.
C4_SingleUseUnderConcurrency ==
  \A p, q \in Procs :
    ( /\ p # q
      /\ req[p].op = "refresh" /\ req[q].op = "refresh"
      /\ req[p].token = req[q].token
      /\ req[p].raised = {} /\ req[q].raised = {}
      /\ req[p].pc = "setex" /\ req[p].pair # NoPair )
    => ~(req[q].pc = "setex" /\ req[q].pair # NoPair)

\* C5: when the blacklist lookup raises, the request goes on as if the token
\* were not revoked: decode_token returns the claims and the failure is not
\* turned into a rejection.
C5_LookupFailsOpen ==
  \A p \in Procs :
    ( /\ req[p].pc = "done"
      /\ req[p].op \in {"verify", "refresh"}
      /\ "get" \in req[p].raised )
    => ( /\ req[p].payload = req[p].token
         /\ req[p].detail \notin {"Could not validate credentials",
                                  "Invalid refresh token"} )

RateFault(r) == r.raised \cap {"incr", "expire"} # {}

\* C6: check_rate_limit returns True whenever rate limiting is disabled, the
\* client is absent, or one of its store calls raised, at any granularity;
\* login then issues its pair.
C6_RateLimitFailsOpen ==
  \A p \in Procs :
    ( /\ req[p].pc = "done"
      /\ req[p].checked
      /\ (~RATE_LIMIT_ENABLED \/ ~redis_client \/ RateFault(req[p])) )
    => (req[p].allowed /\ req[p].status = 200 /\ req[p].pair # NoPair)

\* C6 witness: the incr of the hour or day counter raised and the login
\* went through.
C6_Witness ==
  \E p \in Procs :
    /\ req[p].pc = "done"
    /\ req[p].checked
    /\ "incr" \in req[p].raised
    /\ req[p].g > 1
    /\ req[p].status = 200

\* C7: when the setex of blacklist_token fails, the blacklist is left as it
\* was and the handler still succeeds: refresh returns the new pair, logout
\* answers "Successfully logged out" and writes its audit row.
C7_RevokeFailureIsSilent ==
  [][ \A p \in Procs :
        ( /\ req[p].pc = "setex"
          /\ req'[p].pc = "done"
          /\ req'[p].raised \cap {"setex", "setex_arg"} # {} )
        => ( /\ blacklist' = blacklist
             /\ req'[p].status = 200
             /\ (req[p].op = "refresh"
                   => /\ req'[p].pair = req[p].pair
                      /\ req'[p].pair # NoPair
                      /\ {req'[p].pair.access_token,
                          req'[p].pair.refresh_token} \subseteq issued)
             /\ (req[p].op = "logout"
                   => /\ req'[p].detail = "Successfully logged out"
                      /\ req'[p].audit = << "logout" >>) ) ]_vars

\* C7 witness: a refresh returned its pair although the setex raised, and
\* the consumed refresh token is not blacklisted.
C7_Witness ==
  \E p \in Procs :
    /\ req[p].pc = "done"
    /\ req[p].op = "refresh"
    /\ "setex" \in req[p].raised
    /\ req[p].status = 200
    /\ req[p].pair # NoPair
    /\ req[p].token \notin DOMAIN blacklist

\* C8: with limiting on and the store answering, for login attempts that
\* pass the credential checks and run inside one minute window: attempts
\* 1..L are not refused by the minute limit (they succeed unless the hour or
\* day limit refuses them), attempt L+1 onwards is refused with 429 by the
\* minute limit, and the count starts again in the next window.
C8_MinuteLimit ==
  \A p \in Procs :
    ( /\ req[p].pc = "done"
      /\ req[p].op = "login"
      /\ req[p].checked
      /\ RATE_LIMIT_ENABLED /\ redis_client
      /\ req[p].in_window /\ req[p].clean )
    => /\ req[p].k <= RATE_LIMIT_PER_MINUTE
            => (req[p].status = 200 \/ (req[p].status = 429 /\ req[p].g > 1))
       /\ req[p].k > RATE_LIMIT_PER_MINUTE
            => (req[p].status = 429 /\ req[p].g = 1 /\ req[p].pair = NoPair)

\* C8 witness: the first attempt of the second minute window succeeds while
\* the counter of the first window still stands above the limit.
C8_Witness ==
  \E p \in Procs :
    /\ req[p].pc = "done" /\ req[p].op = "login"
    /\ req[p].in_window /\ req[p].clean
    /\ req[p].k = 1
    /\ req[p].status = 200
    /\ WinIdx(1, now) = 1
    /\ FormatRateKey("u1", "login", "minute", 0) \in DOMAIN rate
    /\ rate[FormatRateKey("u1", "login", "minute", 0)].count
         > RATE_LIMIT_PER_MINUTE

\* C9 as claimed: in no window of any granularity do more check_rate_limit
\* calls return True than the limit allows, whatever the interleaving.
C9_ReturnsPerWindow ==
  \A g \in 1..3 : retTrue[g] <= windows[g].limit

\* C9 amended: the bound holds for the calls that read the clock and return
\* inside the same window.
C9_ReturnsWithinWindow ==
  \A g \in 1..3 : withinTrue[g] <= windows[g].limit

\* C9 witness: two logins under way together, the minute window's allowance
\* used up and the other login refused.
C9_Witness ==
  /\ withinTrue[1] = RATE_LIMIT_PER_MINUTE
  /\ \E p, q \in Procs :
       /\ p # q
       /\ req[p].pc = "done" /\ req[p].status = 200 /\ req[p].in_window
       /\ req[q].pc = "done" /\ req[q].status = 429 /\ req[q].in_window
       /\ req[q].k < req[p].k

\* C10: login decides in the order credentials, active flag, rate limit, and
\* issues a pair only when all three pass.
C10_LoginOrder ==
  \A p \in Procs :
    LET r == req[p]
        credOk == r.user # NoUser
                  /\ get_password_hash(r.password) = r.user.hashed_password
    IN  r.op = "login" =>
          /\ r.pc # "done" => (credOk /\ r.user.is_active /\ r.checked)
          /\ r.pc = "done" =>
               /\ ~credOk => (r.status = 401 /\ ~r.checked
                              /\ r.detail = "Incorrect username or password")
               /\ (credOk /\ ~r.user.is_active) => (r.status = 403 /\ ~r.checked)
               /\ (credOk /\ r.user.is_active) => r.checked
               /\ (credOk /\ r.user.is_active /\ ~r.allowed) => r.status = 429
               /\ (r.pair # NoPair)
                    <=> (credOk /\ r.user.is_active /\ r.checked /\ r.allowed)
               /\ (r.pair # NoPair) <=> (r.status = 200)

\* C10 witness: a disabled account presenting a wrong password is refused
\* for its credentials, not for being disabled.
C10_Witness ==
  \E p \in Procs :
    /\ req[p].pc = "done" /\ req[p].op = "login"
    /\ req[p].user # NoUser /\ ~req[p].user.is_active
    /\ req[p].password = "wrong"
    /\ req[p].status = 401

\* the login request of p ends in this step
LoginEnds(p) ==
  /\ req'[p].op = "login"
  /\ req'[p].pc = "done"
  /\ req'[p] # req[p]

PasswordMatches(r) ==
  r.user # NoUser /\ get_password_hash(r.password) = r.user.hashed_password

\* C11: a login whose password matches the stored hash of an active user the
\* rate limit lets through returns one access+refresh pair, sets last_login_at
\* and writes exactly one login_success audit row; a login of an existing
\* user with a wrong password is refused with 401 "Incorrect username or
\* password", writes exactly one login_failed row, issues no token and leaves
\* last_login_at as it was.
C11_LoginEndToEnd ==
  [][ \A p \in Procs :
        LoginEnds(p) =>
          LET r == req'[p] IN
          /\ (PasswordMatches(r) /\ r.user.is_active /\ r.allowed)
             => /\ r.status = 200
                /\ r.pair.access_token = create_access_token(r.user.id, now)
                /\ r.pair.refresh_token = create_refresh_token(r.user.id, now)
                /\ {r.pair.access_token, r.pair.refresh_token} \subseteq issued'
                /\ last_login_at'[r.user.id] = Seconds(now)
                /\ r.audit = << "login_success" >>
          /\ (r.user # NoUser /\ ~PasswordMatches(r))
             => /\ r.status = 401
                /\ r.detail = "Incorrect username or password"
                /\ r.audit = << "login_failed" >>
                /\ r.pair = NoPair
                /\ issued' = issued
                /\ last_login_at' = last_login_at ]_vars

\* C11 witness: after a login that succeeded in this run, alice's login with
\* a wrong password was refused and left one login_failed row.
C11_Witness ==
  \E p \in Procs :
    /\ req[p].pc = "done" /\ req[p].op = "login"
    /\ req[p].username = "alice" /\ req[p].password = "wrong"
    /\ req[p].status = 401
    /\ req[p].audit = << "login_failed" >>
    /\ last_login_at["u1"] >= 0
    /\ \E t \in issued : t.iat >= 0

\* C12: a protected request presenting a token whose type is not "access"
\* never resolves a user: it is refused for its token type.
C12_VerifyRejectsNonAccess ==
  \A p \in Procs :
    ( /\ req[p].pc = "done"
      /\ req[p].op = "verify"
      /\ req[p].token.type # "access" )
    => (req[p].status = 401 /\ req[p].user = NoUser)

\* the refresh request of p is decided in this step: by jwt.decode and what
\* follows it when there is no store client, or by what follows the lookup
RefreshDecided(p) ==
  /\ req'[p].op = "refresh"
  /\ req'[p] # req[p]
  /\ req[p].pc \in {"idle", "done", "get"}
  /\ req'[p].pc \in {"done", "setex"}
  /\ "get" \notin req'[p].raised

\* C13: refresh_token decides in the order decode, token type, revocation,
\* active user, the first failing check giving the reason; a pair is issued
\* only when all four pass, never for a token of type access.
C13_RefreshOrder ==
  [][ \A p \in Procs :
        RefreshDecided(p) =>
          LET r == req'[p]
              tok == r.token
              decoded == req[p].pc = "get" \/ (tok.sig /\ Unexpired(tok, now))
              revoked == req[p].pc = "get" /\ tok \in DOMAIN blacklist
          IN  /\ IF ~decoded
                 THEN r.detail = "Could not validate credentials"
                 ELSE IF tok.type # "refresh"
                 THEN r.detail = "Invalid token type"
                 ELSE IF revoked
                 THEN r.detail = "Token has been revoked"
                 ELSE IF ActiveUserById(tok.sub) = NoUser
                 THEN r.status = 403
                 ELSE r.pair # NoPair
              /\ r.pair # NoPair => tok.type = "refresh" ]_vars

\* C14: every rejection has one fixed status: wrong credentials, an invalid,
\* revoked or wrongly typed token give 401, a disabled user gives 403 in
\* login, refresh and protected requests alike, the rate limit gives 429.
C14_StatusMapping ==
  \A p \in Procs :
    req[p].pc = "done" =>
      /\ req[p].detail \in {"Incorrect username or password",
                            "Could not validate credentials",
                            "Invalid refresh token",
                            "Token has been revoked",
                            "Invalid token type"} => req[p].status = 401
      /\ req[p].detail = "Too many login attempts" => req[p].status = 429
      /\ ( \/ req[p].detail = "User account is disabled"
           \/ ( /\ req[p].op \in TokenOps
                /\ req[p].payload # NoToken
                /\ req[p].user = NoUser
                /\ (req[p].op = "refresh" => req[p].payload.type = "refresh") ) )
         => req[p].status = 403

\* the (user_id, request_type) pairs check_rate_limit is called with
RatePairs == {"u1", "ip:h1", "api_key:k1"} \X {"api", "login"}

WindowIndexes == (0 - 1) .. Seconds(MaxTime)

\* what the store holds under a key: nothing reads as count 0
KeyValue(store, key) ==
  IF key \in DOMAIN store THEN store[key] ELSE [count |-> 0, ttl |-> NoTTL]

\* C15: a store call of check_rate_limit(s, a) changes no counter of any
\* other (s', a'): every key formatted for another pair, in every window,
\* holds after the call what it held before.
C15_PairsIndependent ==
  [][ \A p \in Procs :
        ( /\ req[p].pc \in {"rl_incr", "rl_expire"}
          /\ req'[p] # req[p] )
        => \A pair \in RatePairs \ {<< req[p].user_id, req[p].request_type >>} :
             \A g \in 1..3 : \A i \in WindowIndexes :
               LET key == FormatRateKey(pair[1], pair[2], windows[g].name, i)
               IN  KeyValue(rate', key) = KeyValue(rate, key) ]_vars

\* C15 witness: counters of alice's "api" calls and of host h1's stand next
\* to the untouched hour counter of alice's earlier login.
C15_Witness ==
  /\ KeyValue(rate, FormatRateKey("u1", "api", "minute", 0)).count >= 1
  /\ KeyValue(rate, FormatRateKey("ip:h1", "api", "minute", 0)).count >= 1
  /\ KeyValue(rate, FormatRateKey("u1", "login", "hour", 0 - 1)).count = 1

\* C16: blacklist_token(t) called at time now leaves an entry that expires
\* exactly at t.exp when t.exp > now and the store takes the write (a TTL of
\* max(0, t.exp - now)), no entry of the store outlives its token's exp, and
\* when t.exp <= now nothing is written.
C16_EntryLivesToExp ==
  [][ /\ \A p \in Procs :
           ( /\ req[p].pc = "setex"
             /\ req'[p].pc = "done"
             /\ "setex" \notin req'[p].raised )
           => /\ req[p].token \in DOMAIN blacklist'
              /\ blacklist'[req[p].token] = req[p].token.exp * TicksPerSec
      /\ \A tok \in DOMAIN blacklist' :
           blacklist'[tok] <= tok.exp * TicksPerSec
      /\ \A p \in Procs :
           ( /\ req'[p].op \in {"refresh", "logout"}
             /\ req'[p] # req[p]
             /\ req'[p].status = 200
             /\ req'[p].token.exp * TicksPerSec <= now )
           => blacklist' = blacklist ]_vars

RECURSIVE SumSeq(_)
SumSeq(seq) == IF seq = << >> THEN 0 ELSE Head(seq) + SumSeq(Tail(seq))

\* C17 as claimed: in any interval as long as the minute window at most 2L
\* check_rate_limit calls for alice's logins return True (L the minute limit).
C17_TwiceLimitAnyInterval ==
  SumSeq(recentTrue) <= 2 * RATE_LIMIT_PER_MINUTE

\* C17 amended: the bound 2L holds for the calls that read the clock and
\* return inside one and the same window.
C17_TwiceLimitWithinWindow ==
  SumSeq(recentWithin) <= 2 * RATE_LIMIT_PER_MINUTE

\* C17 witness: a burst across the boundary of the first and second minute
\* window let through more than L calls inside one window's length, L on
\* each side of the boundary.
C17_Witness ==
  /\ WinIdx(1, now) = 1
  /\ WinIdx(1, now - 1) = 0
  /\ recentWithin[Len(recentWithin)] = RATE_LIMIT_PER_MINUTE
  /\ recentWithin[Len(recentWithin) - 1] = RATE_LIMIT_PER_MINUTE
  /\ SumSeq(recentWithin) > RATE_LIMIT_PER_MINUTE

\* the granularity and the window index a rate key was formatted with
KeyWindow(key) == CHOOSE g \in 1..3 : windows[g].name = key[Len(key) - 1]
KeyIndex(key) == key[Len(key)]
KeyCurrent(key, t) == WinIdx(KeyWindow(key), t) = KeyIndex(key)

\* C18: while its window is current a counter is neither removed nor
\* lowered; a TTL, whenever expire lands, ends no earlier than the window
\* does; so each incr inside the window sees one more than the one before,
\* and the k-th login check of a minute window sees the count k.
C18_CounterLastsItsWindow ==
  [][ /\ \A key \in DOMAIN rate :
           (KeyCurrent(key, now) /\ KeyCurrent(key, now'))
           => /\ key \in DOMAIN rate'
              /\ rate'[key].count >= rate[key].count
      /\ \A key \in DOMAIN rate' :
           rate'[key].ttl # NoTTL
           => rate'[key].ttl >=
                (KeyIndex(key) + 1) * windows[KeyWindow(key)].size * TicksPerSec
      /\ \A p \in Procs :
           ( /\ req[p].pc = "rl_incr"
             /\ req'[p] # req[p]
             /\ "incr" \notin req'[p].raised
             /\ KeyCurrent(RateKey(req[p]), now) )
           => /\ rate'[RateKey(req[p])].count
                   = KeyValue(rate, RateKey(req[p])).count + 1
              /\ (req[p].op = "login" /\ req[p].g = 1 /\ clean)
                 => rate'[RateKey(req[p])].count = req[p].k ]_vars

\* C18 witness: in the first minute window the expire landed a tick after
\* the window began, and the counter went on to 2.
C18_Witness ==
  /\ WinIdx(1, now) = 0
  /\ LET key == FormatRateKey("u1", "login", "minute", 0)
     IN  /\ key \in DOMAIN rate
         /\ rate[key].count >= 2
         /\ rate[key].ttl > MINUTE * TicksPerSec

\* what the caller of login gets back
LoginResponse(r) ==
  [status |-> r.status, detail |-> r.detail, pair |-> r.pair]

\* C19: a login for a username that does not exist gets the same response
\* (status, message, no tokens) as a login of an existing user with a wrong
\* password.
C19_NoUserEnumeration ==
  \A p, q \in Procs :
    ( /\ req[p].pc = "done" /\ req[p].op = "login"
      /\ req[q].pc = "done" /\ req[q].op = "login"
      /\ req[p].user = NoUser
      /\ req[q].user # NoUser /\ ~PasswordMatches(req[q]) )
    => /\ LoginResponse(req[p]) = LoginResponse(req[q])
       /\ req[p].status = 401

\* C19 witness: mallory, who has no account, and alice with a wrong password
\* have both been answered.
C19_Witness ==
  \E p, q \in Procs :
    /\ req[p].pc = "done" /\ req[p].op = "login"
    /\ req[q].pc = "done" /\ req[q].op = "login"
    /\ req[p].username = "mallory" /\ req[p].user = NoUser
    /\ req[q].username = "alice" /\ req[q].password = "wrong"
    /\ req[p].audit # req[q].audit
    /\ req[p].detail = req[q].detail

TokenKinds == {"access", "refresh"}

C21_IssueDeterministic ==
  \A a, b \in issued :
    (a.sub = b.sub /\ a.type = b.type /\ a.iat = b.iat) => a = b

\* blacklist_token(t) returns in this step, the store reachable and not
\* failing, t with lifetime left
RevokeReturns(p) ==
  /\ req'[p].op = "revoke"
  /\ req'[p].pc = "done"
  /\ req'[p] # req[p]
  /\ redis_client
  /\ "setex" \notin req'[p].raised
  /\ req'[p].token.exp * TicksPerSec > now

\* C22: after blacklist_token(t) on an unexpired t the store holds t's entry,
\* expiring at t's exp; a second blacklist_token(t) leaves the store as the
\* first call left it.
C22_RevokeIdempotent ==
  [][ \A p \in Procs :
        RevokeReturns(p) =>
          LET t == req'[p].token IN
          /\ IsBlacklisted(blacklist', t)
          /\ blacklist'[t] = t.exp * TicksPerSec
          /\ IsBlacklisted(blacklist, t) => blacklist' = blacklist ]_vars

StrengthCalls == {p \in Procs : req[p].op = "strength" /\ req[p].pc = "done"}

PasswordClasses == {UpperChars, LowerChars, DigitChars, SpecialChars}

\* the classes of which the password has a character
ClassesPresent(password) ==
  {class \in PasswordClasses : \E i \in DOMAIN password : password[i] \in class}

LengthPoints(password) ==
  Cardinality({n \in {8, 12, 16} : Len(password) >= n})

\* C23 as claimed: "P@ssw0rd123!" is rated very_strong.
C23_ExampleVeryStrong ==
  \A p \in StrengthCalls :
    req[p].result.password \in ExamplePasswords /\ Len(req[p].result.password) = 12
    => req[p].result.strength = "very_strong"

\* C23 amended: the tier follows the score (length points plus classes
\* present) as weak < 3 <= medium < 5 <= strong < 7 <= very_strong, which
\* rates "P@ssw0rd123!", 12 characters of all four classes and so 6 points,
\* strong; very_strong takes 16 characters and all four classes.
C23_TierFollowsScore ==
  \A p \in StrengthCalls :
    LET password == req[p].result.password
        score == LengthPoints(password) + Cardinality(ClassesPresent(password))
        tier == req[p].result.strength
    IN  /\ tier = "weak" <=> score < 3
        /\ tier = "medium" <=> (3 <= score /\ score < 5)
        /\ tier = "strong" <=> (5 <= score /\ score < 7)
        /\ tier = "very_strong" <=> 7 <= score
        /\ tier = "very_strong"
             <=> (Len(password) >= 16 /\ ClassesPresent(password) = PasswordClasses)
        /\ (password \in ExamplePasswords /\ Len(password) = 12)
             => (score = 6 /\ tier = "strong")

\* C23 witness: "P@ssw0rd123!" has been rated, and it was rated strong.
C23_Witness ==
  \E p \in StrengthCalls :
    /\ req[p].result.password
         = << "P", "@", "s", "s", "w", "0", "r", "d", "1", "2", "3", "!" >>
    /\ req[p].result.strength = "strong"

\* C24: validate_password_strength returns valid exactly for the passwords
\* of length >= 8 that have an uppercase letter, a lowercase letter, a digit
\* and a special character; errors holds one message, the rule's own, for
\* each rule broken and nothing else (so every password shorter than 8
\* characters gets the length message), and valid = (errors is empty).
C24_ValidIffAllRules ==
  \A p \in StrengthCalls :
    LET password == req[p].result.password
        errors == req[p].result.errors
        Has(class) == \E i \in DOMAIN password : password[i] \in class
        Times(message) ==
          Cardinality({i \in DOMAIN errors : errors[i] = message})
        broken ==
          Point(Len(password) < 8) + Point(~Has(UpperChars))
          + Point(~Has(LowerChars)) + Point(~Has(DigitChars))
          + Point(~Has(SpecialChars))
    IN  /\ req[p].result.valid
             <=> ( /\ Len(password) >= 8
                   /\ Has(UpperChars) /\ Has(LowerChars)
                   /\ Has(DigitChars) /\ Has(SpecialChars) )
        /\ req[p].result.valid <=> errors = << >>
        /\ Len(errors) = broken
        /\ Times("Password must be at least 8 characters long")
             = Point(Len(password) < 8)
        /\ Times("Password must contain at least one uppercase letter")
             = Point(~Has(UpperChars))
        /\ Times("Password must contain at least one lowercase letter")
             = Point(~Has(LowerChars))
        /\ Times("Password must contain at least one digit")
             = Point(~Has(DigitChars))
        /\ Times("Password must contain at least one special character")
             = Point(~Has(SpecialChars))

\* C24 witness: a password of exactly eight characters with all four
\* classes has been checked and found valid, without any message.
C24_Witness ==
  \E p \in StrengthCalls :
    /\ Len(req[p].result.password) = 8
    /\ \A class \in PasswordClasses :
         \E i \in DOMAIN req[p].result.password :
           req[p].result.password[i] \in class
    /\ req[p].result.valid
    /\ req[p].result.errors = << >>

\* C25: the tokens a login or a refresh has just returned are not revoked by
\* the revocation of another call's token: neither the rotation of the
\* refresh token consumed nor an earlier logout of another session has put
\* them on the blacklist, whatever the timing of the calls.
C25_RevokeSparesOtherTokens ==
  \A p \in Procs :
    ( /\ req[p].pc = "done"
      /\ req[p].op \in {"login", "refresh"}
      /\ req[p].status = 200 )
    => /\ ~IsBlacklisted(blacklist, req[p].pair.access_token)
       /\ ~IsBlacklisted(blacklist, req[p].pair.refresh_token)

\* the refresh tokens issued together with the access token a
PairMate(a) ==
  {t \in issued : t.type = "refresh" /\ t.sub = a.sub /\ t.iat = a.iat}

C27_RejectedLoginsNotCounted ==
  [][ /\ \A p \in Procs :
           /\ (LoginEnds(p) /\ req'[p].status \in {401, 403})
              => (rate' = rate /\ ~req'[p].checked /\ attempts' = attempts)
           /\ (req'[p].op = "login" /\ req'[p].checked)
              => (PasswordMatches(req'[p]) /\ req'[p].user.is_active)
           /\ (LoginEnds(p) /\ req'[p].status = 429)
              => (req'[p].checked /\ PasswordMatches(req'[p]))
           /\ ( /\ LoginEnds(p)
                /\ req'[p].checked /\ req'[p].k = 1
                /\ req'[p].in_window /\ req'[p].clean )
              => (req'[p].status = 200 \/ req'[p].g > 1)
      /\ rate' # rate
         => \/ now' # now
            \/ \E q \in Procs :
                 /\ req[q].pc \in {"rl_incr", "rl_expire"}
                 /\ req[q].op = "login"
                 /\ PasswordMatches(req[q]) ]_vars

\* C27 witness: three logins within the first tick, of which only the last
\* reached the rate limit; it found the minute counter at 1 and succeeded.
C27_Witness ==
  /\ now = 0 /\ nreq = 3 /\ attempts = 1
  /\ RATE_LIMIT_ENABLED /\ redis_client
  /\ KeyValue(rate, FormatRateKey("u1", "login", "minute", 0)).count = 1
  /\ \E p \in Procs :
       /\ req[p].op = "login" /\ req[p].pc = "done"
       /\ req[p].status = 200 /\ req[p].k = 1

\* the key check_rate_limit uses for granularity j in the call of request r
CallKey(r, j) ==
  FormatRateKey(r.user_id, r.request_type, windows[j].name,
                r.current_time \div windows[j].size)

\* check_rate_limit returns False in this step, after store calls that all
\* answered, in the minute window in which it read the clock
RejectedAt(p) ==
  /\ req[p].pc \in {"rl_incr", "rl_expire"}
  /\ req'[p].pc = "done"
  /\ ~req'[p].allowed
  /\ req'[p].raised = {}
  /\ req'[p].in_window

\* C28: the windows are counted in the order minute, hour, day; a call
\* rejected at granularity g has raised the counter of g and of every
\* granularity before it by one over what the store held when the call
\* began, leaves the counters after g as they were, and leaves g's counter
\* above its limit, so that each further rejected call raises it again.
C28_RejectedCallKeepsIncrements ==
  [][ \A p \in Procs :
        /\ (req'[p].pc = "rl_incr" /\ req'[p] # req[p])
           => req'[p].g = (IF req[p].pc \in {"rl_incr", "rl_expire"}
                           THEN req[p].g + 1 ELSE 1)
        /\ RejectedAt(p) =>
             LET r == req[p]
                 g == req'[p].g
             IN  /\ \A j \in 1..Len(windows) :
                      IF j <= g
                      THEN KeyValue(rate', CallKey(r, j)).count
                             = KeyValue(r.before, CallKey(r, j)).count + 1
                      ELSE KeyValue(rate', CallKey(r, j))
                             = KeyValue(r.before, CallKey(r, j))
                 /\ KeyValue(rate', CallKey(r, g)).count > windows[g].limit
                 /\ KeyValue(r.before, CallKey(r, g)).count >= windows[g].limit ]_vars

\* C28 witness: the second login rejected by the hour limit has taken the
\* hour counter two above the limit; it counted for its minute window first,
\* and the day counter is where it was at the start.
C28_Witness ==
  \E p \in Procs :
    /\ req[p].op = "login" /\ req[p].pc = "done"
    /\ req[p].status = 429 /\ req[p].g = 2
    /\ req[p].in_window /\ req[p].raised = {}
    /\ KeyValue(rate, FormatRateKey("u1", "login", "minute", WinIdx(1, now))).count = 1
    /\ KeyValue(rate, FormatRateKey("u1", "login", "hour", 0)).count
         = RATE_LIMIT_PER_HOUR + 2
    /\ KeyValue(rate, FormatRateKey("u1", "login", "day", 0)).count = 1

\* the users table holds an active row for this id
SubjectActive(id) ==
  \E u \in DOMAIN users : users[u].id = id /\ users[u].is_active

\* C29: a protected request resolves a user only if the users table holds an
\* active row for the token's subject when the request is decided; a token
\* that decode_token accepts (signed, unexpired, not blacklisted) whose
\* subject is disabled or deleted is refused with 401, no user attached and
\* last_login_at untouched, whether or not any blacklist entry exists.
C29_VerifyNeedsActiveUser ==
  [][ \A p \in Procs :
        ( /\ req'[p].op = "verify"
          /\ req'[p] # req[p]
          /\ req'[p].pc = "done" )
        => LET r == req'[p] IN
           /\ r.status = 200
              => /\ SubjectActive(r.token.sub)
                 /\ r.user.is_active
                 /\ r.user.id = r.token.sub
           /\ (r.payload # NoToken /\ ~SubjectActive(r.token.sub))
              => /\ r.status = 401
                 /\ r.user = NoUser
                 /\ last_login_at' = last_login_at ]_vars

\* C29 witness: alice was disabled; her access token, valid and with no
\* entry on the blacklist, is refused on the next protected request.
C29_Witness ==
  /\ redis_client
  /\ blacklist = << >>
  /\ ~users["alice"].is_active
  /\ \E p \in Procs :
       /\ req[p].op = "verify" /\ req[p].pc = "done"
       /\ req[p].token = PriorAccess
       /\ req[p].payload = PriorAccess
       /\ req[p].status = 401
       /\ req[p].detail = "User not found"

\* the keys of alice's login counters
LoginKeys ==
  {FormatRateKey("u1", "login", windows[g].name, i) :
     g \in 1..3, i \in (0 - 1)..Seconds(MaxTime)}

HasTtl(key) == key \in DOMAIN rate /\ rate[key].ttl # NoTTL

LacksTtl(key) == key \in DOMAIN rate /\ rate[key].ttl = NoTTL

\* the call whose incr created the key is about to call expire
Pending(key) ==
  \E p \in Procs : req[p].pc = "rl_expire" /\ RateKey(req[p]) = key

\* the key has no TTL and no call is left that would set one
Orphan(key) == LacksTtl(key) /\ ~Pending(key)

\* the call pending on the key crashes, or its expire raises, in this step
ExpireLost(key) ==
  \E p \in Procs :
    /\ req[p].pc = "rl_expire" /\ RateKey(req[p]) = key
    /\ req'[p].pc = "done"
    /\ req'[p].raised \cap {"crash", "expire"} # {}

\* C30: a counter key is without a TTL only from the incr that created it
\* (the one that returned 1) to the expire of the same call; that expire
\* gives it a TTL of window_size.  Unless the worker crashes or the expire
\* fails in between, the key gets its TTL and is deleted in the end; after a
\* crash or a failed expire the key stays without a TTL for good.  (In the
\* end, then, the store holds no login counter but those left without a TTL
\* by a crash or a failed expire.)
C30_CounterTtl ==
  /\ [][ \A key \in LoginKeys :
           /\ LacksTtl(key)'
              => \/ Pending(key)'
                 \/ Pending(key) /\ ExpireLost(key)
                 \/ Orphan(key)
           /\ (Pending(key)' /\ ~Pending(key))
              => (key \notin DOMAIN rate /\ rate'[key].count = 1)
           /\ (Pending(key) /\ ~Pending(key)' /\ ~ExpireLost(key))
              => /\ HasTtl(key)'
                 /\ rate'[key].ttl
                      = now + windows[KeyWindow(key)].size * TicksPerSec
           /\ Orphan(key) => Orphan(key)' ]_vars
  /\ <>[](\A key \in LoginKeys : key \in DOMAIN rate => Orphan(key))

\* C30 witness: a worker crashed between incr and expire; the minute counter
\* it created is still in the store, without a TTL, after the day window of
\* its creation has ended and every other key is gone.
C30_Witness ==
  /\ now >= DAY * TicksPerSec
  /\ \E i \in 0..Seconds(MaxTime) :
       /\ Orphan(FormatRateKey("u1", "login", "minute", i))
       /\ \A key \in DOMAIN rate : rate[key].ttl = NoTTL
  /\ \E p \in Procs : "crash" \in req[p].raised /\ req[p].g = 1

====
